---- MODULE Spec2Model ----
(***************************************************************************)
(* TropoScan: the detection-and-classification pipeline (README            *)
(* process_image / classify_risk), the RiskClassification component that   *)
(* labels a result, and the DetectionInterface component that requests     *)
(* detections and displays their results.                                  *)
(*                                                                         *)
(* Numbers.  Temperatures are carried in half degrees Celsius (the value   *)
(* t stands for t/2 degrees), which is exact for the code's calibration    *)
(*   temperature = -20 - (avg_brightness - 128) * 0.5                      *)
(* on integral mean brightness.  An image is carried by the statistics the *)
(* code reads from it: its mean brightness on the 0..255 scale and, for    *)
(* its mask, the pixel counts above 0.8 and above 0.5.                     *)
(*                                                                         *)
(* Toasts and console output are transient messages and are not state.     *)
(***************************************************************************)
EXTENDS Integers, Sequences, FiniteSets, TLC

\* null, for the record-valued fields
None == [null |-> TRUE]

(***************************************************************************)
(* Image geometry and calibration                                          *)
(***************************************************************************)
\* cv2.resize(np.array(image), (256, 256)): mask.size of every frame
total_pixels == 256 * 256

\* ground area of one pixel, km^2 (MetricsExtractor: clusterAreaKm2 is the
\* active pixel count times a fixed per-pixel constant)
PixelAreaKm2 == 4

\* mean brightness values explored (0..255 scale); they straddle the
\* temperatures -55, -60, -65, -70 and -75 and include both ends
AvgBrightnessValues ==
  {0, 128, 198, 207, 208, 209, 217, 218, 219, 227, 228, 229, 238, 255}

\* mask pixel counts explored; at 4 km^2 a pixel they straddle the areas
\* 200, 300, 500, 1000, 1500, 2000, 2500 and the 2% high-risk ratio
PixelCountValues ==
  {0, 50, 51, 75, 125, 126, 250, 375, 376, 500, 501, 625, 1310, 1311}

\* a frame together with its mask, reduced to what classify_risk and the
\* metrics read: mean brightness, pixels with mask > 0.8, pixels with mask > 0.5
Frames ==
  { f \in [avg_brightness : AvgBrightnessValues,
           high_risk_pixels : PixelCountValues,
           active_pixels : PixelCountValues] :
      f.high_risk_pixels <= f.active_pixels }

(***************************************************************************)
(* Backend: README "Risk Classification Logic"                             *)
(***************************************************************************)
MockTemperature_SignFlipped(avg_brightness) == -40 + (avg_brightness - 128)

\* temperature = -20 - (avg_brightness - 128) * 0.5, in half degrees
MockTemperature(avg_brightness) == -40 - (avg_brightness - 128)

classify_risk_HighAtMinus80(high_risk_pixels, n_pixels, avg_brightness) ==
  LET temperature == MockTemperature(avg_brightness) IN
  IF high_risk_pixels * 100 > 2 * n_pixels \/ temperature < -160 THEN "high"
  ELSE IF temperature < -120 THEN "moderate"
  ELSE "low"

classify_risk_HighInclusive(high_risk_pixels, n_pixels, avg_brightness) ==
  LET temperature == MockTemperature(avg_brightness) IN
  IF high_risk_pixels * 100 > 2 * n_pixels \/ temperature <= -140 THEN "high"
  ELSE IF temperature < -120 THEN "moderate"
  ELSE "low"

classify_risk_ModerateAtMinus50(high_risk_pixels, n_pixels, avg_brightness) ==
  LET temperature == MockTemperature(avg_brightness) IN
  IF high_risk_pixels * 100 > 2 * n_pixels \/ temperature < -140 THEN "high"
  ELSE IF temperature < -100 THEN "moderate"
  ELSE "low"

\* if high_risk_pixels / total_pixels > 0.02 or temperature < -70: "high"
\* elif temperature < -60: "moderate"   else: "low"
classify_risk(high_risk_pixels, n_pixels, avg_brightness) ==
  LET temperature == MockTemperature(avg_brightness) IN
  IF high_risk_pixels * 100 > 2 * n_pixels \/ temperature < -140 THEN "high"
  ELSE IF temperature < -120 THEN "moderate"
  ELSE "low"

ClusterArea_Constant(active_pixels) == 1500

\* clusterAreaKm2 = active pixel count x per-pixel ground area
ClusterArea(active_pixels) == active_pixels * PixelAreaKm2

\* the risk_data of a response: DetectionResult['risk_data']
RiskData(f) ==
  [risk_level   |-> classify_risk(f.high_risk_pixels, total_pixels, f.avg_brightness),
   temperature  |-> MockTemperature(f.avg_brightness),
   cluster_area |-> ClusterArea(f.active_pixels)]

(***************************************************************************)
(* Frontend: RiskClassification                                            *)
(***************************************************************************)
\* parseInt on the temperature text ("-70.5°C"): the integer part of the
\* number, truncated toward zero; whole degrees
parseInt(temp) == IF temp >= 0 THEN temp \div 2 ELSE -((-temp) \div 2)

getEventType(temp) ==
  LET tempValue == parseInt(temp) IN
  IF tempValue < -70 THEN "Cyclonic Cluster"
  ELSE IF tempValue < -65 THEN "Severe Thunderstorm"
  ELSE IF tempValue < -60 THEN "Local Rainstorm"
  ELSE "Low-Risk Cloud Cluster"

(***************************************************************************)
(* Inputs of the detection service                                         *)
(***************************************************************************)
\* most requests the interface sends in one run
MaxRequests == 2

\* what the bytes of a raw image hold: a decodable picture (named after the
\* three samples), bytes no decoder parses, or no bytes at all
Contents == {"normal", "developing", "cyclone", "corrupt", "empty"}

NoFile == [name |-> "", type |-> "", content |-> ""]

\* the files the user can pick in the upload dialog
UploadFiles ==
  { [name |-> "storm.png",  type |-> "image/png",  content |-> "cyclone"],
    [name |-> "broken.png", type |-> "image/png",  content |-> "corrupt"],
    [name |-> "empty.jpg",  type |-> "image/jpeg", content |-> "empty"],
    [name |-> "notes.txt",  type |-> "text/plain", content |-> "corrupt"] }

\* the static samples of DetectionInterface
SampleIds == {"normal", "developing", "cyclone"}

\* the normalized frame of each decodable picture: its mean brightness, the
\* number of pixels above the fallback's brightness threshold, and what the
\* trained model's mask holds for it (pixels > 0.8, pixels > 0.5)
FrameOf(content) ==
  CASE content = "normal" ->
         [avg_brightness |-> 128, bright_pixels |-> 0,
          model_high |-> 0, model_active |-> 50]
    [] content = "developing" ->
         [avg_brightness |-> 218, bright_pixels |-> 250,
          model_high |-> 125, model_active |-> 375]
    [] OTHER ->
         [avg_brightness |-> 238, bright_pixels |-> 1311,
          model_high |-> 500, model_active |-> 625]

\* what a forward pass of the trained model does within one request
InferenceOutcomes == {"ok", "throws", "mismatch"}

(***************************************************************************)
(* Detection service: normalize, segment, extract, classify                *)
(***************************************************************************)
\* ImageNormalizer: corrupt and zero-byte input fails with DecodeError
Decodable(content) == content \notin {"corrupt", "empty"}

SelectProvider_AlwaysReal(loaded) == "real_pytorch"

\* startup: Real if the artifact loaded, otherwise Fallback
SelectProvider(loaded) == IF loaded THEN "real_pytorch" ELSE "mock_demo"

\* Variant Fallback: mask = 1 where the frame exceeds the brightness
\* threshold, else 0; a binary mask of the frame's size
FallbackSegment(frame) ==
  [high_risk_pixels |-> frame.bright_pixels,
   active_pixels    |-> frame.bright_pixels,
   size             |-> total_pixels,
   model_type       |-> "mock_demo"]

\* Variant Real: the forward pass of the loaded model
RealSegment(frame, outcome) ==
  [high_risk_pixels |-> frame.model_high,
   active_pixels    |-> frame.model_active,
   size             |-> IF outcome = "mismatch" THEN total_pixels \div 4
                        ELSE total_pixels,
   model_type       |-> "real_pytorch"]

segment_FailsOnInferenceError(variant, frame, outcome) ==
  IF variant = "real_pytorch"
  THEN (IF outcome = "throws"
        THEN [high_risk_pixels |-> 0, active_pixels |-> 0, size |-> 0,
              model_type |-> "real_pytorch"]
        ELSE RealSegment(frame, outcome))
  ELSE FallbackSegment(frame)

segment_ReportsStartupVariant(variant, frame, outcome) ==
  IF variant = "real_pytorch" /\ outcome # "throws"
  THEN RealSegment(frame, outcome)
  ELSE [FallbackSegment(frame) EXCEPT !.model_type = variant]

\* SegmentationProvider.segment: an inference error inside Variant Real
\* degrades this request to the fallback mask
segment(variant, frame, outcome) ==
  IF variant = "real_pytorch" /\ outcome # "throws"
  THEN RealSegment(frame, outcome)
  ELSE FallbackSegment(frame)

\* a DetectionError; content names the raw image the response answers
Failure(error, content) ==
  [ok |-> FALSE, success |-> FALSE, error |-> error,
   risk_data |-> None, model_type |-> "none", overlay_image |-> "none",
   content |-> content]

\* detect(rawImage) -> RiskResult | DetectionError
detect(variant, content, outcome) ==
  IF ~Decodable(content) THEN Failure("DecodeError", content)
  ELSE
    LET frame == FrameOf(content)
        mask  == segment(variant, frame, outcome)
    IN IF mask.size # total_pixels THEN Failure("DimensionMismatch", content)
       ELSE [ok |-> TRUE, success |-> TRUE, error |-> "none",
             risk_data |-> RiskData([avg_brightness   |-> frame.avg_brightness,
                                     high_risk_pixels |-> mask.high_risk_pixels,
                                     active_pixels    |-> mask.active_pixels]),
             model_type |-> mask.model_type,
             overlay_image |-> content,
             content |-> content]

(***************************************************************************)
(* The pipeline pixel by pixel, on small frames                            *)
(***************************************************************************)
\* pixels of the small frames explored (the service's frames have total_pixels)
MaxPixels == 2

\* pixel intensities explored, 0..255 scale: the minimum, the fallback's
\* threshold itself, and a bright pixel; multiples of 60, so that the mean of
\* a frame of up to 6 pixels is a whole number
Intensities == {0, 180, 240}

\* mask values explored, in tenths: 0, active but not high risk (0.6), 1
MaskValues == {0, 6, 10}

\* Variant Fallback's brightness threshold, 0..255 scale
BrightnessThreshold == 180

\* MetricsExtractor's activation threshold (0.5), in tenths
ActivationThreshold == 5

\* classify_risk: mask > 0.8, in tenths
HighRiskThreshold == 8

PixelFrames == [1..MaxPixels -> Intensities]
PixelMasks  == [1..MaxPixels -> MaskValues]

RECURSIVE SumOf(_)
SumOf(seq) == IF seq = <<>> THEN 0 ELSE Head(seq) + SumOf(Tail(seq))

\* np.mean(original_image) * 255
MeanBrightness(image) == SumOf(image) \div Len(image)

\* np.sum(mask > threshold)
CountAbove(mask, threshold) ==
  Cardinality({p \in DOMAIN mask : mask[p] > threshold})

FallbackMask_Inclusive(image) ==
  [p \in DOMAIN image |-> IF image[p] >= BrightnessThreshold THEN 10 ELSE 0]

\* Variant Fallback, per pixel: 1 if the pixel exceeds the brightness
\* threshold, else 0
FallbackMask(image) ==
  [p \in DOMAIN image |-> IF image[p] > BrightnessThreshold THEN 10 ELSE 0]

coveragePercent_OfHighRiskPixels(mask) ==
  [num |-> CountAbove(mask, HighRiskThreshold) * 100, den |-> Len(mask)]

\* coveragePercent as the fraction num/den:
\* (pixels above the activation threshold) / (total pixel count) x 100
coveragePercent(mask) ==
  [num |-> CountAbove(mask, ActivationThreshold) * 100, den |-> Len(mask)]

\* the risk_data of one pipeline run on (image, mask)
PixelRiskData(image, mask) ==
  [risk_level   |-> classify_risk(CountAbove(mask, HighRiskThreshold), Len(mask),
                                  MeanBrightness(image)),
   temperature  |-> MockTemperature(MeanBrightness(image)),
   cluster_area |-> ClusterArea(CountAbove(mask, ActivationThreshold)),
   coverage_percent |-> coveragePercent(mask)]

\* OverlayRenderer's colour ramp: nothing at zero, then green, yellow, red
OverlayColor(m) ==
  IF m > HighRiskThreshold THEN [r |-> 255, g |-> 0, b |-> 0]
  ELSE IF m > ActivationThreshold THEN [r |-> 255, g |-> 255, b |-> 0]
  ELSE [r |-> 0, g |-> 255, b |-> 0]

OverlayAlpha_TintsBackground(m) ==
  IF m > HighRiskThreshold THEN 6
  ELSE IF m > ActivationThreshold THEN 4
  ELSE 2

\* the opacity of the colour, in tenths: below 1 at every activation
OverlayAlpha(m) ==
  IF m = 0 THEN 0
  ELSE IF m > HighRiskThreshold THEN 6
  ELSE IF m > ActivationThreshold THEN 4
  ELSE 2

\* alpha-blend of one channel
Blend(value, colour, alpha) == ((10 - alpha) * value + alpha * colour) \div 10

\* OverlayRenderer.render(originalFrame, mask)
create_overlay(image, mask) ==
  [p \in DOMAIN image |->
     [r |-> Blend(image[p], OverlayColor(mask[p]).r, OverlayAlpha(mask[p])),
      g |-> Blend(image[p], OverlayColor(mask[p]).g, OverlayAlpha(mask[p])),
      b |-> Blend(image[p], OverlayColor(mask[p]).b, OverlayAlpha(mask[p]))]]

\* one pipeline run: what it returns for (image, mask) from variant model_type
PipelineRun(image, mask, model_type) ==
  [model_type        |-> model_type,
   segmentation_mask |-> mask,
   risk_data         |-> PixelRiskData(image, mask),
   overlay           |-> create_overlay(image, mask)]

(***************************************************************************)
(* State                                                                   *)
(***************************************************************************)
VARIABLES
  normalized,        \* process_image: the frame being processed (with its mask)
  risk_data,         \* process_image: the classification of that frame, or None
  resized,           \* pixel pipeline: the pixels of the frame being processed
  processed,         \* pixel pipeline: what the run on resized returned, or None
  previous,          \* pixel pipeline: the run before it, with its frame, or None
  model_loaded,      \* service: the model artifact loaded at startup
  provider,          \* service: the segmentation variant, "none" before startup
  requests,          \* the fetches in flight, by their number
  sent,              \* how many fetches the interface has started
  uploadedImage,     \* DetectionInterface state
  isProcessing,      \* DetectionInterface state
  processingImageId, \* DetectionInterface state, "" for null
  results,           \* DetectionInterface state: a response, or None
  notificationsEnabled,      \* DetectionInterface state
  alertSent,         \* the risk level of the 'Alert Sent' toast, "" before any
  permission,        \* NotificationService.permission
  settings,          \* NotificationService.settings
  serviceWorkerRegistration, \* NotificationService: a registration exists
  history,           \* localStorage 'troposcam-notification-history'
  shown,             \* the notifications displayed, oldest first
  now,               \* Date.now(), in sendRiskAlert calls made so far
  sampleImages,      \* DetectionInterface: the ids of the samples on offer
  loadingSamples     \* DetectionInterface: the sample list is being fetched

vars == <<normalized, risk_data, resized, processed, previous, model_loaded, provider, requests, sent,
          uploadedImage, isProcessing, processingImageId, results,
          notificationsEnabled, alertSent,
          permission, settings, serviceWorkerRegistration, history, shown, now,
          sampleImages, loadingSamples>>

sampleVars    == <<sampleImages, loadingSamples>>
pixelVars     == <<resized, processed, previous>>
pipelineVars  == <<normalized, risk_data, pixelVars>>
serviceVars   == <<model_loaded, provider>>
interfaceVars == <<uploadedImage, isProcessing, processingImageId, results,
                   notificationsEnabled, alertSent>>
notifyVars    == <<permission, settings, serviceWorkerRegistration, history, shown,
                   now>>

\* RiskClassification: const eventTypeDescription = getEventType(temperature)
eventTypeDescription == getEventType(risk_data.temperature)

\* no pixel pipeline run
InitNoPixels ==
  /\ resized = <<>>
  /\ processed = None
  /\ previous = None

InitService ==
  /\ model_loaded = FALSE
  /\ provider = "none"
  /\ requests = <<>>
  /\ sent = 0

\* the mount effect, run to its end: notificationsEnabled is what
\* requestPermission returned, permission holds the user's answer
initNotifications ==
  notificationsEnabled = (permission = "granted")

\* the static samples loadSampleImages falls back to, by id
StaticSamples == <<"normal", "developing", "cyclone">>

\* the mount effect loadSampleImages, run to its end with a list
SampleImagesLoaded ==
  /\ sampleImages = StaticSamples
  /\ loadingSamples = FALSE

\* useState initial values of the detection state, then initNotifications
InitDetection ==
  /\ uploadedImage = NoFile
  /\ isProcessing = FALSE
  /\ processingImageId = ""
  /\ results = None
  /\ alertSent = ""
  /\ initNotifications

\* useState initial values, then the mount effects
InitInterface ==
  /\ SampleImagesLoaded
  /\ InitDetection

\* new NotificationService(): checkPermission reads the browser's
\* permission, initializeServiceWorker registers /sw.js or fails,
\* loadSettings finds nothing saved and takes the defaults
InitNotificationService ==
  /\ permission \in {"default", "granted", "denied"}
  /\ serviceWorkerRegistration \in BOOLEAN
  /\ settings = [highRisk |-> TRUE, moderateRisk |-> TRUE, lowRisk |-> TRUE,
                 backgroundNotifications |-> TRUE]
  /\ history = <<>>
  /\ shown = <<>>
  /\ now = 0

(***************************************************************************)
(* The classification pipeline on its own: every frame, classified         *)
(***************************************************************************)
InitClassify ==
  /\ normalized \in Frames
  /\ risk_data = None
  /\ InitNoPixels
  /\ InitService
  /\ InitNotificationService
  /\ InitInterface

\* process_image steps 4-5: risk_data = classify_risk(segmentation_mask, normalized)
process_image ==
  /\ risk_data = None
  /\ risk_data' = RiskData(normalized)
  /\ UNCHANGED <<sampleVars, normalized, pixelVars, serviceVars, requests, sent, interfaceVars, notifyVars>>

\* the next request arrives with another image
NextImage ==
  /\ risk_data # None
  /\ normalized' \in Frames
  /\ risk_data' = None
  /\ UNCHANGED <<sampleVars, pixelVars, serviceVars, requests, sent, interfaceVars, notifyVars>>

NextClassify == process_image \/ NextImage

SpecClassify == InitClassify /\ [][NextClassify]_vars

(***************************************************************************)
(* The pipeline pixel by pixel: every small frame, every mask              *)
(***************************************************************************)
InitPixels ==
  /\ normalized = [avg_brightness |-> 0, high_risk_pixels |-> 0, active_pixels |-> 0]
  /\ risk_data = None
  /\ resized \in PixelFrames
  /\ processed = None
  /\ previous = None
  /\ InitService
  /\ InitNotificationService
  /\ permission = "default"
  /\ ~serviceWorkerRegistration
  /\ InitInterface

\* process_image steps 4-5 and create_overlay: the fallback's mask, or
\* whatever mask the trained model predicts
process_pixels ==
  /\ processed = None
  /\ \/ processed' = PipelineRun(resized, FallbackMask(resized), "mock_demo")
     \/ \E mask \in PixelMasks :
          processed' = PipelineRun(resized, mask, "real_pytorch")
  /\ UNCHANGED <<sampleVars, normalized, risk_data, resized, previous, serviceVars, requests,
                 sent, interfaceVars, notifyVars>>

\* the next request arrives with another image
NextPixels ==
  /\ processed # None
  /\ previous' = [resized |-> resized, processed |-> processed]
  /\ resized' \in PixelFrames
  /\ processed' = None
  /\ UNCHANGED <<sampleVars, normalized, risk_data, serviceVars, requests, sent,
                 interfaceVars, notifyVars>>

NextPixelPipeline == process_pixels \/ NextPixels

SpecPixels == InitPixels /\ [][NextPixelPipeline]_vars

(***************************************************************************)
(* The detection service and the DetectionInterface that calls it          *)
(***************************************************************************)
Init ==
  /\ normalized = [avg_brightness |-> 0, high_risk_pixels |-> 0, active_pixels |-> 0]
  /\ risk_data = None
  /\ InitNoPixels
  /\ InitService
  /\ InitNotificationService
  /\ InitInterface

\* the response of fetch i has arrived
Answered(i) == requests[i].response # None

\* fetch(...) starts request number sent + 1; the async handler that awaits
\* it keeps the notificationsEnabled of the render it was created in
Fetch(endpoint, content) ==
  /\ sent < MaxRequests
  /\ sent' = sent + 1
  /\ requests' =
       [i \in DOMAIN requests \cup {sent + 1} |->
          IF i = sent + 1
          THEN [endpoint |-> endpoint, content |-> content,
                notificationsEnabled |-> notificationsEnabled,
                inference |-> "none", response |-> None]
          ELSE requests[i]]

\* the await on fetch i is over: its continuation runs, once
Settle(i) ==
  /\ requests' = [j \in DOMAIN requests \ {i} |-> requests[j]]
  /\ UNCHANGED sent

\* process startup: load the model artifact, select the variant
Startup ==
  /\ provider = "none"
  /\ \E loaded \in BOOLEAN :
       /\ model_loaded' = loaded
       /\ provider' = SelectProvider(loaded)
  /\ UNCHANGED <<sampleVars, pipelineVars, requests, sent, interfaceVars, notifyVars>>

ServeRequest_SharedFrame(i) ==
  LET latest == CHOOSE j \in DOMAIN requests : \A k \in DOMAIN requests : k <= j IN
  /\ provider # "none"
  /\ ~Answered(i)
  /\ \E outcome \in InferenceOutcomes :
       /\ provider # "real_pytorch" => outcome = "ok"
       /\ requests' =
            [requests EXCEPT
               ![i].inference = IF provider = "real_pytorch"
                                   /\ Decodable(requests[latest].content)
                                THEN outcome ELSE "none",
               ![i].response = detect(provider, requests[latest].content, outcome)]
  /\ UNCHANGED <<sampleVars, pipelineVars, serviceVars, sent, interfaceVars, notifyVars>>

\* POST /api/detect and POST /api/sample/<id>: one pipeline run
ServeRequest(i) ==
  /\ provider # "none"
  /\ ~Answered(i)
  /\ \E outcome \in InferenceOutcomes :
       /\ provider # "real_pytorch" => outcome = "ok"
       /\ requests' =
            [requests EXCEPT
               ![i].inference = IF provider = "real_pytorch"
                                   /\ Decodable(requests[i].content)
                                THEN outcome ELSE "none",
               ![i].response = detect(provider, requests[i].content, outcome)]
  /\ UNCHANGED <<sampleVars, pipelineVars, serviceVars, sent, interfaceVars, notifyVars>>

\* file.type.includes('image/'), over the MIME types of UploadFiles
IncludesImage(type) == type \in {"image/png", "image/jpeg"}

handleImageUpload_AcceptsAnyType(file) ==
  /\ uploadedImage' = file
  /\ results' = None
  /\ UNCHANGED <<sampleVars, pipelineVars, serviceVars, alertSent, requests, sent, isProcessing,
                 processingImageId, notificationsEnabled, notifyVars>>

\* onChange of the file input
handleImageUpload(file) ==
  /\ IF ~IncludesImage(file.type)
     THEN UNCHANGED <<uploadedImage, results>>
     ELSE /\ uploadedImage' = file
          /\ results' = None
  /\ UNCHANGED <<sampleVars, pipelineVars, serviceVars, alertSent, requests, sent, isProcessing, processingImageId,
                 notificationsEnabled, notifyVars>>

(* NotificationService *)

\* 'Keep only last 50 notifications'
HistoryLimit == 50

\* Notification.requestPermission() is reached on 'default' only: what the
\* user can answer to the browser's prompt (dismissing it leaves 'default')
PromptAnswers ==
  IF permission = "default" THEN {"default", "granted", "denied"} ELSE {permission}

\* serviceWorkerRegistration.showNotification is reached with a registration
\* and backgroundNotifications only: it displays, or it throws
ShowNotificationOutcomes ==
  IF serviceWorkerRegistration /\ settings.backgroundNotifications
  THEN BOOLEAN ELSE {FALSE}

\* requestPermission: granted and denied are returned as they are; on
\* 'default' the browser asks and the user's answer is stored
PermissionAfter(answer) == IF permission = "default" THEN answer ELSE permission

\* riskSettings[riskLevel]
RiskSetting(riskLevel) ==
  CASE riskLevel = "low"      -> settings.lowRisk
    [] riskLevel = "moderate" -> settings.moderateRisk
    [] OTHER                  -> settings.highRisk

storeNotificationHistory_NeverTrims(riskLevel) ==
  history' = <<[riskLevel |-> riskLevel]>> \o history

\* storeNotificationHistory: unshift, then splice(50)
storeNotificationHistory(riskLevel) ==
  LET unshifted == <<[riskLevel |-> riskLevel]>> \o history IN
  history' = IF Len(unshifted) > HistoryLimit
             THEN SubSeq(unshifted, 1, HistoryLimit)
             ELSE unshifted

\* showRegularNotification: new Notification(title, options), where
\* options.actions is never empty (sendNotification fills in 'View Details'
\* and 'Dismiss'). A browser that ignores the actions of a non-persistent
\* notification displays it; one that rejects them throws a TypeError out of
\* sendNotification and displays nothing
NotificationOutcomes == BOOLEAN

\* sendNotification: nothing without permission; through the service worker
\* when a registration exists and backgroundNotifications is on, through
\* showRegularNotification otherwise and when the service worker's display
\* fails
sendNotification(riskLevel, answer, swDisplays) ==
  /\ permission' = PermissionAfter(answer)
  /\ \E regularDisplays \in NotificationOutcomes :
       shown' =
         IF PermissionAfter(answer) # "granted" THEN shown
         ELSE IF serviceWorkerRegistration
                 /\ settings.backgroundNotifications /\ swDisplays
         THEN Append(shown, [riskLevel |-> riskLevel, via |-> "serviceWorker"])
         ELSE IF regularDisplays
         THEN Append(shown, [riskLevel |-> riskLevel, via |-> "regular"])
         ELSE shown

sendRiskAlert_IgnoresSettings(riskLevel, answer, swDisplays) ==
  /\ now' = now + 1
  /\ sendNotification(riskLevel, answer, swDisplays)
  /\ storeNotificationHistory(riskLevel)

\* sendRiskAlert: returns when the level is disabled, else sends the
\* notification and stores it in the history
sendRiskAlert(riskLevel, answer, swDisplays) ==
  /\ now' = now + 1
  /\ IF ~RiskSetting(riskLevel)
     THEN UNCHANGED <<permission, shown, history>>
     ELSE /\ sendNotification(riskLevel, answer, swDisplays)
          /\ storeNotificationHistory(riskLevel)

\* sendRiskNotification of the render that started the request
sendRiskNotification(enabled, riskData) ==
  IF ~enabled
  THEN UNCHANGED <<permission, shown, history, now>>
  ELSE \E answer \in PromptAnswers, swDisplays \in ShowNotificationOutcomes :
         sendRiskAlert(riskData.risk_level, answer, swDisplays)

(***************************************************************************)
(* The NotificationService on its own: its public methods, called in any   *)
(* order, on the settings and the history that localStorage kept           *)
(***************************************************************************)
\* most sendRiskAlert calls in one run
MaxAlerts == 2

RiskLevels == {"low", "moderate", "high"}

\* a history of n entries as earlier sessions stored it, newest first
StoredHistory(n) ==
  [k \in 1..n |->
     [riskLevel |-> IF k % 3 = 0 THEN "low"
                    ELSE IF k % 3 = 1 THEN "moderate" ELSE "high"]]

\* loadSettings: the saved settings, or the defaults
SavedSettings ==
  [highRisk : BOOLEAN, moderateRisk : BOOLEAN, lowRisk : BOOLEAN,
   backgroundNotifications : BOOLEAN]

\* Partial<NotificationSettings>: one field
SettingsUpdates ==
  { [f \in {field} |-> value] :
      field \in {"highRisk", "moderateRisk", "lowRisk", "backgroundNotifications"},
      value \in BOOLEAN }

InitNotify ==
  /\ normalized = [avg_brightness |-> 0, high_risk_pixels |-> 0, active_pixels |-> 0]
  /\ risk_data = None
  /\ InitNoPixels
  /\ InitService
  /\ permission \in {"default", "granted", "denied"}
  /\ serviceWorkerRegistration \in BOOLEAN
  /\ settings \in SavedSettings
  /\ history \in {StoredHistory(n) : n \in {0, HistoryLimit - 1, HistoryLimit}}
  /\ shown = <<>>
  /\ now = 0
  /\ InitInterface

\* sendTestNotification(riskLevel): this.sendRiskAlert(riskLevel, testDetails)
sendTestNotification(riskLevel) ==
  /\ now < MaxAlerts
  /\ \E answer \in PromptAnswers, swDisplays \in ShowNotificationOutcomes :
       sendRiskAlert(riskLevel, answer, swDisplays)
  /\ UNCHANGED <<sampleVars, pipelineVars, serviceVars, requests, sent, interfaceVars,
                 settings, serviceWorkerRegistration>>

\* updateSettings(newSettings): { ...this.settings, ...newSettings }, saved
updateSettings(newSettings) ==
  /\ settings' = [f \in DOMAIN settings |->
                    IF f \in DOMAIN newSettings THEN newSettings[f] ELSE settings[f]]
  /\ UNCHANGED <<sampleVars, pipelineVars, serviceVars, requests, sent, interfaceVars,
                 permission, serviceWorkerRegistration, history, shown, now>>

\* requestPermission()
requestPermission ==
  /\ \E answer \in PromptAnswers : permission' = PermissionAfter(answer)
  /\ UNCHANGED <<sampleVars, pipelineVars, serviceVars, requests, sent, interfaceVars,
                 settings, serviceWorkerRegistration, history, shown, now>>

NextNotify ==
  \/ \E riskLevel \in RiskLevels : sendTestNotification(riskLevel)
  \/ \E newSettings \in SettingsUpdates : updateSettings(newSettings)
  \/ requestPermission

SpecNotify == InitNotify /\ [][NextNotify]_vars

(* DetectionInterface *)

\* the Enable Alerts button
enableNotifications ==
  /\ \E answer \in PromptAnswers :
       /\ permission' = PermissionAfter(answer)
       /\ notificationsEnabled' = (PermissionAfter(answer) = "granted")
  /\ UNCHANGED <<sampleVars, pipelineVars, serviceVars, alertSent, requests, sent, uploadedImage,
                 isProcessing, processingImageId, results,
                 settings, serviceWorkerRegistration, history, shown, now>>

\* the Analyze button (rendered when uploadedImage is set, disabled while
\* isProcessing), up to the fetch
processUploadedImage ==
  /\ uploadedImage # NoFile
  /\ ~isProcessing
  /\ isProcessing' = TRUE
  /\ Fetch("detect", uploadedImage.content)
  /\ UNCHANGED <<sampleVars, pipelineVars, serviceVars, alertSent, uploadedImage, processingImageId,
                 results, notificationsEnabled, notifyVars>>

processUploadedImageResolved_IgnoresStatus(i) ==
  /\ requests[i].endpoint = "detect"
  /\ Answered(i)
  /\ LET result == requests[i].response IN
     /\ results' = result
     /\ IF result.ok /\ result.success
        THEN sendRiskNotification(requests[i].notificationsEnabled, result.risk_data)
        ELSE UNCHANGED <<permission, shown, history, now>>
  /\ isProcessing' = FALSE
  /\ Settle(i)
  /\ UNCHANGED <<sampleVars, pipelineVars, serviceVars, alertSent, uploadedImage, processingImageId,
                 notificationsEnabled, settings,
                 serviceWorkerRegistration>>

\* processUploadedImage after the fetch resolved: response.ok and
\* result.success set the results and send the risk notification, anything
\* else throws into the catch; finally resets isProcessing
processUploadedImageResolved(i) ==
  /\ requests[i].endpoint = "detect"
  /\ Answered(i)
  /\ LET result == requests[i].response IN
     IF result.ok /\ result.success
     THEN /\ results' = result
          /\ sendRiskNotification(requests[i].notificationsEnabled, result.risk_data)
     ELSE UNCHANGED <<results, permission, shown, history, now>>
  /\ isProcessing' = FALSE
  /\ Settle(i)
  /\ UNCHANGED <<sampleVars, pipelineVars, serviceVars, alertSent, uploadedImage, processingImageId,
                 notificationsEnabled, settings,
                 serviceWorkerRegistration>>

\* processUploadedImage when the fetch itself rejects: catch, finally
processUploadedImageRejected(i) ==
  /\ requests[i].endpoint = "detect"
  /\ ~Answered(i)
  /\ isProcessing' = FALSE
  /\ Settle(i)
  /\ UNCHANGED <<sampleVars, pipelineVars, serviceVars, alertSent, uploadedImage, processingImageId,
                 results, notificationsEnabled, notifyVars>>

\* a click on a sample card (one per entry of sampleImages, rendered once
\* the list is loaded; SampleImageGridCard.handleClick lets it through
\* unless this sample is the one being processed), up to the fetch
processSampleImage(sampleId) ==
  /\ ~loadingSamples
  /\ \E k \in DOMAIN sampleImages : sampleImages[k] = sampleId
  /\ processingImageId # sampleId
  /\ isProcessing' = TRUE
  /\ processingImageId' = sampleId
  /\ uploadedImage' = NoFile
  /\ Fetch("sample", sampleId)
  /\ UNCHANGED <<sampleVars, pipelineVars, serviceVars, alertSent, results, notificationsEnabled, notifyVars>>

\* processSampleImage after the fetch resolved
processSampleImageResolved(i) ==
  /\ requests[i].endpoint = "sample"
  /\ Answered(i)
  /\ LET result == requests[i].response IN
     IF result.ok /\ result.success
     THEN /\ results' = result
          /\ sendRiskNotification(requests[i].notificationsEnabled, result.risk_data)
     ELSE UNCHANGED <<results, permission, shown, history, now>>
  /\ isProcessing' = FALSE
  /\ processingImageId' = ""
  /\ Settle(i)
  /\ UNCHANGED <<sampleVars, pipelineVars, serviceVars, alertSent, uploadedImage,
                 notificationsEnabled, settings,
                 serviceWorkerRegistration>>

processSampleImageRejected_LeavesProcessing(i) ==
  /\ requests[i].endpoint = "sample"
  /\ ~Answered(i)
  /\ Settle(i)
  /\ UNCHANGED <<sampleVars, pipelineVars, serviceVars, interfaceVars, notifyVars>>

\* processSampleImage when the fetch itself rejects
processSampleImageRejected(i) ==
  /\ requests[i].endpoint = "sample"
  /\ ~Answered(i)
  /\ isProcessing' = FALSE
  /\ processingImageId' = ""
  /\ Settle(i)
  /\ UNCHANGED <<sampleVars, pipelineVars, serviceVars, alertSent, uploadedImage, results,
                 notificationsEnabled, notifyVars>>

sendAlert_AlertsOnAnyResult ==
  /\ results # None
  /\ alertSent' = results.risk_data.risk_level
  /\ UNCHANGED <<sampleVars, pipelineVars, serviceVars, requests, sent, uploadedImage,
                 isProcessing, processingImageId, results, notificationsEnabled,
                 notifyVars>>

\* the Send Alert button (rendered under the results unless their risk
\* level is low): returns without results or on a low result, else toasts
sendAlert ==
  /\ results # None
  /\ results.risk_data.risk_level # "low"
  /\ alertSent' = IF results = None \/ results.risk_data.risk_level = "low"
                  THEN alertSent
                  ELSE results.risk_data.risk_level
  /\ UNCHANGED <<sampleVars, pipelineVars, serviceVars, requests, sent, uploadedImage,
                 isProcessing, processingImageId, results, notificationsEnabled,
                 notifyVars>>

Next ==
  \/ Startup
  \/ enableNotifications
  \/ \E i \in DOMAIN requests : ServeRequest(i)
  \/ \E file \in UploadFiles : handleImageUpload(file)
  \/ processUploadedImage
  \/ \E i \in DOMAIN requests : processUploadedImageResolved(i)
  \/ \E i \in DOMAIN requests : processUploadedImageRejected(i)
  \/ \E sampleId \in SampleIds : processSampleImage(sampleId)
  \/ \E i \in DOMAIN requests : processSampleImageResolved(i)
  \/ \E i \in DOMAIN requests : processSampleImageRejected(i)
  \/ sendAlert

Spec == Init /\ [][Next]_vars

(***************************************************************************)
(* The same, with every fetch settling                                     *)
(***************************************************************************)
\* a browser in which notifications are blocked
InitSettling ==
  /\ Init
  /\ permission = "denied"
  /\ ~serviceWorkerRegistration

\* the continuation after 'await fetch' of request i: the try body, or the
\* catch, and the finally
Continue(i) ==
  /\ i \in DOMAIN requests
  /\ \/ processUploadedImageResolved(i)
     \/ processUploadedImageRejected(i)
     \/ processSampleImageResolved(i)
     \/ processSampleImageRejected(i)

\* a fetch promise settles, answered or rejected, and the event loop then
\* runs the continuation that awaits it
SpecSettling ==
  /\ InitSettling
  /\ [][Next]_vars
  /\ \A i \in 1..MaxRequests : WF_vars(Continue(i))

(***************************************************************************)
(* The DetectionInterface from its mount: the sample list is fetched first *)
(***************************************************************************)
\* what fetch('/api/sample-images') and response.json() come to: the fetch
\* or the parse throws, or the answer has a status and a success flag and,
\* with both, the backend's list of samples
SampleResponses ==
  { [throws |-> TRUE, ok |-> FALSE, success |-> FALSE, samples |-> <<>>],
    [throws |-> FALSE, ok |-> FALSE, success |-> FALSE, samples |-> <<>>],
    [throws |-> FALSE, ok |-> TRUE, success |-> FALSE, samples |-> <<>>],
    [throws |-> FALSE, ok |-> TRUE, success |-> TRUE, samples |-> StaticSamples] }

\* useState initial values of the sample list, the mount effect pending
InitSamples ==
  /\ normalized = [avg_brightness |-> 0, high_risk_pixels |-> 0, active_pixels |-> 0]
  /\ risk_data = None
  /\ InitNoPixels
  /\ InitService
  /\ InitNotificationService
  /\ InitDetection
  /\ sampleImages = <<>>
  /\ loadingSamples = TRUE

\* loadSampleImages: the list of an OK, successful answer is set; the
\* static samples are set in the catch; finally clears loadingSamples
loadSampleImages(response) ==
  /\ loadingSamples
  /\ sampleImages' = IF response.throws THEN StaticSamples
                     ELSE IF response.ok /\ response.success THEN response.samples
                     ELSE sampleImages
  /\ loadingSamples' = FALSE
  /\ UNCHANGED <<pipelineVars, serviceVars, requests, sent, interfaceVars,
                 notifyVars>>

NextSamples ==
  \/ \E response \in SampleResponses : loadSampleImages(response)
  \/ Startup
  \/ \E i \in DOMAIN requests : ServeRequest(i)
  \/ \E sampleId \in SampleIds : processSampleImage(sampleId)
  \/ \E i \in DOMAIN requests : processSampleImageResolved(i)
  \/ \E i \in DOMAIN requests : processSampleImageRejected(i)

SpecSamples == InitSamples /\ [][NextSamples]_vars

(***************************************************************************)
(* The two decision tables of the design, section 4.4                      *)
(***************************************************************************)
TierTable(temperature, area) ==
  IF temperature < -140 /\ area > 2000 THEN "high"
  ELSE IF (-140 <= temperature /\ temperature < -120)
          \/ (1000 <= area /\ area <= 2000) THEN "moderate"
  ELSE "low"

EventTable(temperature, area) ==
  IF area > 1500 /\ temperature < -140 THEN "Cyclonic Cluster"
  ELSE IF 500 < area /\ area <= 1500 /\ temperature < -130 THEN "Severe Thunderstorm"
  ELSE IF 200 < area /\ area <= 500 /\ temperature < -120 THEN "Local Rainstorm"
  ELSE "Low-Risk Cloud Cluster"

Classified == risk_data # None

\* C1: the tier of every classified result is the one the tier table gives
\* for its temperature and cluster area (High, else Moderate, else Low)
C1_TierFollowsTable ==
  Classified =>
    risk_data.risk_level = TierTable(risk_data.temperature, risk_data.cluster_area)

\* C2: the event label displayed for every classified result is the one the
\* event table gives for its cluster area and temperature
C2_EventFollowsTable ==
  Classified =>
    eventTypeDescription = EventTable(risk_data.temperature, risk_data.cluster_area)

\* C3: at temperature -70 and area 2000 exactly the tier is Moderate, not High
C3_BoundaryIsModerate ==
  (Classified /\ risk_data.temperature = -140 /\ risk_data.cluster_area = 2000)
    => risk_data.risk_level = "moderate"

C3_BoundaryClassified ==
  Classified /\ risk_data.temperature = -140 /\ risk_data.cluster_area = 2000

\* C4: a result is Low only when its temperature is above -60 and its
\* cluster area is below 1000
C4_LowOnlyWhenWarmAndSmall ==
  (Classified /\ risk_data.risk_level = "low")
    => (risk_data.temperature > -120 /\ risk_data.cluster_area < 1000)

\* C5: temperature -75 and area 2500 give tier High and event Cyclonic Cluster
C5_ColdLargeIsHighCyclonic ==
  (Classified /\ risk_data.temperature = -150 /\ risk_data.cluster_area = 2500)
    => (risk_data.risk_level = "high" /\ eventTypeDescription = "Cyclonic Cluster")

C5_ColdLargeClassified ==
  Classified /\ risk_data.temperature = -150 /\ risk_data.cluster_area = 2500

\* C6: temperature -55 and area 300 give tier Low and event Low-Risk Cloud Cluster
C6_WarmSmallIsLowLowRisk ==
  (Classified /\ risk_data.temperature = -110 /\ risk_data.cluster_area = 300)
    => (risk_data.risk_level = "low" /\ eventTypeDescription = "Low-Risk Cloud Cluster")

C6_WarmSmallClassified ==
  Classified /\ risk_data.temperature = -110 /\ risk_data.cluster_area = 300

(***************************************************************************)
(* Provider selection, degradation and failures                            *)
(***************************************************************************)
Served == { i \in DOMAIN requests : Answered(i) }

\* the mask statistics each variant produces for a decodable picture
RealRiskData(content) ==
  RiskData([avg_brightness   |-> FrameOf(content).avg_brightness,
            high_risk_pixels |-> FrameOf(content).model_high,
            active_pixels    |-> FrameOf(content).model_active])

FallbackRiskData(content) ==
  RiskData([avg_brightness   |-> FrameOf(content).avg_brightness,
            high_risk_pixels |-> FrameOf(content).bright_pixels,
            active_pixels    |-> FrameOf(content).bright_pixels])

\* C7: the provider variant is selected once at startup, Real if and only
\* if the model artifact loaded, it never changes afterwards, and with a
\* failed model load every request for a decodable image still succeeds
C7_ProviderSelectedOnceAtStartup ==
  /\ [](provider # "none" =>
          /\ provider \in {"real_pytorch", "mock_demo"}
          /\ (provider = "real_pytorch" <=> model_loaded))
  /\ [][provider # "none" => provider' = provider /\ model_loaded' = model_loaded]_vars
  /\ [](\A i \in Served :
          (~model_loaded /\ Decodable(requests[i].content))
            => (requests[i].response.ok /\ requests[i].response.success))

C7_ServedAfterFailedLoad ==
  /\ provider = "mock_demo"
  /\ ~model_loaded
  /\ \E i \in Served : requests[i].response.ok

\* C8: a request whose Real inference throws still completes successfully
\* with the fallback mask, the provider stays Real, and a request whose
\* inference runs is served with the Real model's mask
C8_InferenceFailureDegradesOneRequest ==
  \A i \in Served :
    /\ requests[i].inference = "throws" =>
         /\ requests[i].response.ok
         /\ requests[i].response.success
         /\ requests[i].response.risk_data = FallbackRiskData(requests[i].content)
         /\ provider = "real_pytorch"
    /\ requests[i].inference = "ok" =>
         /\ requests[i].response.ok
         /\ requests[i].response.risk_data = RealRiskData(requests[i].content)

C8_RealAfterDegradedRequest ==
  \E i, j \in Served :
    /\ i < j
    /\ requests[i].inference = "throws"
    /\ requests[j].inference = "ok"

\* C9: every returned result carries a modelType, Real exactly when the
\* Real model's inference produced its mask and Fallback exactly when the
\* fallback produced it, and so does the result on display
C9_ModelTypeNamesTheProducer ==
  /\ \A i \in Served :
       requests[i].response.ok =>
         LET result == requests[i].response IN
         /\ result.model_type \in {"real_pytorch", "mock_demo"}
         /\ result.model_type = "real_pytorch" <=>
              (provider = "real_pytorch" /\ requests[i].inference = "ok")
         /\ result.model_type = "real_pytorch" =>
              result.risk_data = RealRiskData(result.content)
         /\ result.model_type = "mock_demo" =>
              result.risk_data = FallbackRiskData(result.content)
  /\ results # None => results.model_type \in {"real_pytorch", "mock_demo"}

C9_DegradedResultOnDisplay ==
  /\ provider = "real_pytorch"
  /\ results # None
  /\ results.model_type = "mock_demo"

\* C10: a request whose image does not decode, or whose mask has the wrong
\* dimensions, is answered with a failure that carries no risk data and no
\* overlay, and the results on display are never those of such a request
C10_FailuresCarryNoResult ==
  /\ \A i \in Served :
       (~Decodable(requests[i].content) \/ requests[i].inference = "mismatch")
         => /\ ~requests[i].response.ok
            /\ requests[i].response.risk_data = None
            /\ requests[i].response.overlay_image = "none"
  /\ results # None =>
       /\ Decodable(results.content)
       /\ results.ok
       /\ results.risk_data # None

C10_FailedRequestsSettled ==
  /\ results = None
  /\ \E i, j \in Served :
       /\ requests[i].response.error = "DecodeError"
       /\ requests[i].content = "empty"
       /\ requests[j].response.error = "DimensionMismatch"

C12_OnlyImagesAreDetected ==
  /\ [](uploadedImage # NoFile => IncludesImage(uploadedImage.type))
  /\ [][\A i \in DOMAIN requests' \ DOMAIN requests :
          requests'[i].endpoint = "detect" =>
            /\ uploadedImage # NoFile
            /\ IncludesImage(uploadedImage.type)
            /\ requests'[i].content = uploadedImage.content]_vars
  /\ [][(\E file \in UploadFiles :
            ~IncludesImage(file.type) /\ handleImageUpload(file))
          => UNCHANGED <<uploadedImage, results>>]_vars

C12_DetectedUploadOnDisplay ==
  /\ uploadedImage # NoFile
  /\ results # None
  /\ results.content = uploadedImage.content
  /\ \E i \in DOMAIN requests : requests[i].endpoint = "detect"

(***************************************************************************)
(* The pipeline pixel by pixel                                             *)
(***************************************************************************)
Processed == processed # None

\* the run before this one is on record
Compared == processed # None /\ previous # None

\* C13: a mask of the fallback has, for every pixel of the frame, 1 where
\* the pixel exceeds the brightness threshold and 0 elsewhere, and two
\* fallback runs on the same frame return the same mask
C13_FallbackIsPerPixelThreshold ==
  /\ (Processed /\ processed.model_type = "mock_demo") =>
       /\ DOMAIN processed.segmentation_mask = DOMAIN resized
       /\ \A p \in DOMAIN resized :
            /\ resized[p] > BrightnessThreshold => processed.segmentation_mask[p] = 10
            /\ resized[p] <= BrightnessThreshold => processed.segmentation_mask[p] = 0
  /\ (/\ Compared
      /\ processed.model_type = "mock_demo"
      /\ previous.processed.model_type = "mock_demo"
      /\ previous.resized = resized)
       => previous.processed.segmentation_mask = processed.segmentation_mask

C13_SameFrameTwiceThroughFallback ==
  /\ Compared
  /\ processed.model_type = "mock_demo"
  /\ previous.processed.model_type = "mock_demo"
  /\ previous.resized = resized
  /\ \E p, q \in DOMAIN resized :
       resized[p] = BrightnessThreshold /\ resized[q] > BrightnessThreshold

\* a frame of uniformly minimal intensity
Blank(image) == \A p \in DOMAIN image : image[p] = 0

\* C14: the fallback run on a blank frame returns a mask with no active
\* pixel, 0% coverage, and the tier low
C14_BlankFrameIsLow ==
  (Processed /\ processed.model_type = "mock_demo" /\ Blank(resized)) =>
    /\ \A p \in DOMAIN resized : processed.segmentation_mask[p] = 0
    /\ processed.risk_data.coverage_percent.num = 0
    /\ processed.risk_data.risk_level = "low"

C14_BlankFrameProcessed ==
  Processed /\ processed.model_type = "mock_demo" /\ Blank(resized)

(***************************************************************************)
(* Concurrent requests                                                     *)
(***************************************************************************)
\* what the service returns for request i when it is the only request
AloneResult(i) ==
  detect(provider, requests[i].content,
         IF requests[i].inference = "none" THEN "ok" ELSE requests[i].inference)

ActivePixels(mask) ==
  Cardinality({p \in DOMAIN mask : mask[p] > ActivationThreshold})

\* C16: the coverage of every run is 100 times the number of mask pixels
\* above the activation threshold over the number of pixels, it lies between
\* 0 and 100, and of two runs on frames of the same size the one with no
\* fewer active pixels has no smaller coverage
C16_CoverageIsActiveShare ==
  /\ Processed =>
       LET coverage == processed.risk_data.coverage_percent IN
       /\ coverage.den = Len(resized)
       /\ coverage.num = 100 * ActivePixels(processed.segmentation_mask)
       /\ 0 <= coverage.num
       /\ coverage.num <= 100 * coverage.den
  /\ Compared =>
       LET before == previous.processed.risk_data.coverage_percent
           after  == processed.risk_data.coverage_percent
       IN (/\ before.den = after.den
           /\ ActivePixels(previous.processed.segmentation_mask)
                <= ActivePixels(processed.segmentation_mask))
            => before.num * after.den <= after.num * before.den

C16_CoverageGrewToFull ==
  /\ Compared
  /\ ActivePixels(previous.processed.segmentation_mask)
       < ActivePixels(processed.segmentation_mask)
  /\ ActivePixels(previous.processed.segmentation_mask) > 0
  /\ processed.risk_data.coverage_percent.num
       = 100 * processed.risk_data.coverage_percent.den
  /\ \E p \in DOMAIN resized : processed.segmentation_mask[p] = 6

\* the intensities of a frame inside the masked region: their sum and number
MaskedSum(image, mask) ==
  SumOf([p \in DOMAIN image |->
           IF mask[p] > ActivationThreshold THEN image[p] ELSE 0])

\* the run r (a frame with what was returned for it) has a masked region,
\* and its mean intensity is below that of the run q
MaskedMeanBelow(r, q) ==
  LET rMask == r.processed.segmentation_mask
      qMask == q.processed.segmentation_mask
  IN /\ ActivePixels(rMask) > 0
     /\ ActivePixels(qMask) > 0
     /\ MaskedSum(r.resized, rMask) * ActivePixels(qMask)
          < MaskedSum(q.resized, qMask) * ActivePixels(rMask)

ThisRun == [resized |-> resized, processed |-> processed]

\* C17: of two runs, the one whose masked region has the higher mean
\* intensity never has the warmer temperature estimate
C17_ColderWhenMaskedRegionBrighter ==
  Compared =>
    /\ MaskedMeanBelow(previous, ThisRun) =>
         processed.risk_data.temperature <= previous.processed.risk_data.temperature
    /\ MaskedMeanBelow(ThisRun, previous) =>
         previous.processed.risk_data.temperature <= processed.risk_data.temperature

\* C18: the cluster area of every run is its active pixel count times the
\* per-pixel ground area; of two runs, the areas are in the ratio of the
\* active pixel counts, and masks with different active pixel counts have
\* different areas
C18_AreaIsLinearInActivePixels ==
  /\ Processed =>
       processed.risk_data.cluster_area
         = ActivePixels(processed.segmentation_mask) * PixelAreaKm2
  /\ Compared =>
       LET before == ActivePixels(previous.processed.segmentation_mask)
           after  == ActivePixels(processed.segmentation_mask)
       IN /\ previous.processed.risk_data.cluster_area * after
               = processed.risk_data.cluster_area * before
          /\ before # after =>
               previous.processed.risk_data.cluster_area
                 # processed.risk_data.cluster_area

C18_AreaDoubled ==
  /\ Compared
  /\ ActivePixels(previous.processed.segmentation_mask) = 1
  /\ ActivePixels(processed.segmentation_mask) = 2
  /\ processed.risk_data.cluster_area = 2 * previous.processed.risk_data.cluster_area

\* a mask of all zeros
ZeroMask(mask) == \A p \in DOMAIN mask : mask[p] = 0

C20_SameMetricsSameClass ==
  (/\ Compared
   /\ previous.processed.risk_data.temperature = processed.risk_data.temperature
   /\ previous.processed.risk_data.cluster_area = processed.risk_data.cluster_area)
    => /\ previous.processed.risk_data.risk_level = processed.risk_data.risk_level
       /\ getEventType(previous.processed.risk_data.temperature)
            = getEventType(processed.risk_data.temperature)

(***************************************************************************)
(* The NotificationService                                                 *)
(***************************************************************************)
\* the first n entries of a sequence
FirstN(seq, n) == IF Len(seq) > n THEN SubSeq(seq, 1, n) ELSE seq

\* the history after an alert of this level is recorded
Recorded(riskLevel) ==
  FirstN(<<[riskLevel |-> riskLevel]>> \o history, HistoryLimit)

\* C21: the history never holds more than 50 entries; it changes only in a
\* sendRiskAlert call, and a call either leaves it (a disabled level) or
\* puts the new entry first, before the entries it held, and keeps the
\* first 50 of them, dropping the oldest
C21_HistoryKeepsNewestFifty ==
  /\ [](Len(history) <= HistoryLimit)
  /\ [][history' # history => now' # now]_vars
  /\ [][now' # now =>
          \/ \E riskLevel \in RiskLevels :
               ~RiskSetting(riskLevel) /\ history' = history
          \/ \E riskLevel \in RiskLevels :
               RiskSetting(riskLevel) /\ history' = Recorded(riskLevel)]_vars

C21_OldestEntriesDropped ==
  /\ Len(history) = HistoryLimit
  /\ Len(shown) >= 2
  /\ history[1].riskLevel # history[2].riskLevel
  /\ history[3] = StoredHistory(HistoryLimit)[1]

\* C22: a sendRiskAlert call for a level whose setting is off displays
\* nothing, asks for no permission and leaves the history as it was
C22_DisabledLevelHasNoEffect ==
  [][(\E riskLevel \in RiskLevels :
        ~RiskSetting(riskLevel) /\ sendTestNotification(riskLevel))
     => UNCHANGED <<permission, shown, history>>]_vars

\* every call so far was for a disabled level: nothing stored, nothing
\* displayed, the permission never asked for
C22_DisabledAlertsCalled ==
  /\ now = MaxAlerts
  /\ history = <<>>
  /\ shown = <<>>
  /\ permission = "default"

\* C23: a sendNotification call displays exactly one notification when the
\* permission is granted (through the service worker only with a
\* registration and backgroundNotifications, through a regular notification
\* otherwise and as the fallback), and none without the permission
C23_ExactlyOneNotificationWhenPermitted ==
  [][(\E riskLevel \in RiskLevels :
        RiskSetting(riskLevel) /\ sendTestNotification(riskLevel))
     => IF permission' = "granted"
        THEN \E riskLevel \in RiskLevels,
                via \in IF serviceWorkerRegistration
                           /\ settings.backgroundNotifications
                        THEN {"serviceWorker", "regular"} ELSE {"regular"} :
               shown' = Append(shown, [riskLevel |-> riskLevel, via |-> via])
        ELSE shown' = shown]_vars

\* C28: a history entry is recorded only for a notification that could be
\* displayed: no sendRiskAlert call that ends without the permission granted
\* (denied, dismissed or unavailable) records a history entry
C28_NoHistoryWithoutPermission ==
  [][history' # history => permission' = "granted"]_vars

(***************************************************************************)
(* The DetectionInterface                                                  *)
(***************************************************************************)
\* the sample list could not be obtained
Unobtainable(response) ==
  response.throws \/ ~response.ok \/ ~response.success

\* C24: when the sample list cannot be obtained (the request throws, the
\* status is not OK, or success is false) the interface shows the three
\* static samples, and loadSampleImages always ends with loadingSamples
\* false
C24_StaticSamplesWhenListUnavailable ==
  /\ [][(\E response \in SampleResponses : loadSampleImages(response))
        => ~loadingSamples']_vars
  /\ [][(\E response \in SampleResponses :
           Unobtainable(response) /\ loadSampleImages(response))
        => sampleImages' = StaticSamples]_vars

\* C25: while a detection request is in flight isProcessing is true, and at
\* most one request is in flight at any time
C25_AtMostOneRequestInFlight ==
  /\ Cardinality(DOMAIN requests) <= 1
  /\ requests # <<>> => isProcessing

\* C26: results that come on display are the answer to the most recently
\* selected input: the answer to the newest request, with no image uploaded
\* since that request was started
C26_ResultsOfLatestInput ==
  [][results' # results /\ results' # None =>
       \E i \in DOMAIN requests :
         /\ results' = requests[i].response
         /\ i = sent
         /\ IF requests[i].endpoint = "detect"
            THEN uploadedImage.content = requests[i].content
            ELSE uploadedImage = NoFile]_vars

\* the answer request i holds is a failure: none, a status that is not OK,
\* or success false
Failed(i) ==
  ~Answered(i) \/ ~requests[i].response.ok \/ ~requests[i].response.success

\* C27: every request that is started ends, and the step that ends it sets
\* isProcessing to false (and, for a sample, processingImageId to null)
\* whether the answer is a success, an error or none; when it is an error
\* or none the results on display stay as they were
C27_EveryRequestEndsProcessing ==
  /\ \A i \in 1..MaxRequests :
       (i \in DOMAIN requests) ~> (i \notin DOMAIN requests)
  /\ isProcessing ~> ~isProcessing
  /\ [][\A i \in DOMAIN requests :
          i \notin DOMAIN requests' =>
            /\ ~isProcessing'
            /\ requests[i].endpoint = "sample" => processingImageId' = ""
            /\ Failed(i) => results' = results]_vars

\* both requests have ended, the second of them the upload of a file no
\* decoder parses, with the results of the first still on display
C27_FailedRequestEnded ==
  /\ sent = 2
  /\ requests = <<>>
  /\ ~isProcessing
  /\ processingImageId = ""
  /\ uploadedImage.content = "corrupt"
  /\ results # None

(***************************************************************************)
(* The tier and the event label, side by side                              *)
(***************************************************************************)
\* C29: the tier and the event class of a result never contradict each
\* other: a High result is labelled Cyclonic Cluster, and a result labelled
\* Cyclonic Cluster or Severe Thunderstorm is not Low
C29_TierAndEventAgree ==
  Classified =>
    /\ risk_data.risk_level = "high" => eventTypeDescription = "Cyclonic Cluster"
    /\ eventTypeDescription \in {"Cyclonic Cluster", "Severe Thunderstorm"}
         => risk_data.risk_level # "low"

\* Low < Moderate < High
TierRank(risk_level) ==
  CASE risk_level = "low"      -> 0
    [] risk_level = "moderate" -> 1
    [] risk_level = "high"     -> 2

\* the run r is at least as severe as the run q in one metric, the other
\* being the same
ColderOrLarger(r, q) ==
  LET rData == r.processed.risk_data
      qData == q.processed.risk_data
  IN \/ rData.cluster_area = qData.cluster_area
        /\ rData.temperature <= qData.temperature
     \/ rData.temperature = qData.temperature
        /\ rData.cluster_area >= qData.cluster_area

\* C30: of two runs with the same cluster area the colder one never has the
\* lower tier, and of two runs with the same temperature the one with the
\* larger cluster area never has the lower tier
C30_TierIsMonotone ==
  Compared =>
    /\ ColderOrLarger(ThisRun, previous) =>
         TierRank(processed.risk_data.risk_level)
           >= TierRank(previous.processed.risk_data.risk_level)
    /\ ColderOrLarger(previous, ThisRun) =>
         TierRank(previous.processed.risk_data.risk_level)
           >= TierRank(processed.risk_data.risk_level)

====
